---- MODULE Spec2Model ----
(***************************************************************************)
(* Model of scripts/server.py: the asyncio TCP server that streams full or *)
(* diff-compressed terrain chunks.                                         *)
(*                                                                         *)
(* One connection = one handle_client task.  asyncio runs a task without   *)
(* interruption between two awaits, so every action below is the code      *)
(* between two consecutive await points of handle_client.                  *)
(*                                                                         *)
(* A grid (a Python list of rows of floats) is kept sparsely: `side` is    *)
(* the number of rows (= the length of every row) and `ones` the set of    *)
(* <<row, col>> positions holding 1.0; every other cell holds 0.0.         *)
(***************************************************************************)
EXTENDS Integers, Sequences, FiniteSets, TLC

\* ---------------------------------------------------------------- configuration
CHUNK_SIZE == 128
MAX_RETRIES == 3
RETRY_DELAY == 1
MAX_CONCURRENT_CLIENTS == 16
REQUEST_HEADER_SIZE == 10

\* ---------------------------------------------------------------- bounds
\* SpecDiff: longest list handed to compute_diff
MaxListLen == 3
\* SpecFrame: the largest grid handed to pack_and_compress (elements of a row,
\* rows), and the longest buffer of arbitrary bytes handed to find_boundary
MaxRowLen == 2
MaxRows == 2
MaxBufferLen == 5
\* Spec, one connection: complete headers read
MaxRequests == 2
\* Spec: rewrites of the data source's tiles
MaxTileWrites == 1
\* Spec: failed drain() calls
MaxSendFailures == 3
\* SpecPair, connections that share the server: how many, and how many values
\* id(writer) can take
NumConns == 2
NumIds == 2
\* SpecPair: complete headers read over all connections, rewrites of the data
\* source's tiles, failed drain() calls
PairMaxRequests == 2
PairMaxTileWrites == 1
PairMaxSendFailures == 1
\* SpecAdmission, one connection more than the limit: holders whose stream ends
AdmMaxDisconnects == 2
\* SpecAdmission: complete headers read over all connections
AdmMaxRequests == 1

\* ---------------------------------------------------------------- input domains
\* The headers a client sends, (full_flag, (cx, cy), LOD byte): full_flag 0
\* (incremental) and 1 (full) at every LOD byte of 0 (lod 0.0), 1 (factor 255),
\* 100 (factor 2), 200 (factor 1) and 255 (lod 1.0, not sampled); another
\* non-zero full_flag; and another coordinate.
Hdr(f, co, b) == [full_flag |-> f, c |-> co, lod |-> b]
Headers == {Hdr(f, <<0, 0>>, b) : f \in {0, 1}, b \in {0, 1, 100, 200, 255}}
               \cup {Hdr(2, <<0, 0>>, 255), Hdr(0, <<0, 1>>, 255)}
AdmHeaders == {Hdr(1, <<0, 0>>, 255), Hdr(0, <<0, 0>>, 0)}
\* the tiles the data source rewrites, and the cells a rewrite changes: one
\* that every sampling keeps and one that only factor 1 keeps
TileCoords == {<<0, 0>>}
TileCells == {<<0, 0>>, <<3, 5>>}
\* bytes available when the stream ends inside a header
PartialLens == {0, REQUEST_HEADER_SIZE - 1}
\* the connections of each scenario
OneConn == {1}
PairConns == 1..NumConns
PairIds == 1..NumIds
AdmConns == 1..(MAX_CONCURRENT_CLIENTS + 1)

VARIABLES
    sem,          \* _semaphore._value
    waiters,      \* _semaphore._waiters: tasks blocked in acquire(), FIFO
    to_shutdown,  \* the module's to_shutdown flag
    files,        \* dem_tiles/: coordinate -> ones of the stored tile, for the tiles that exist
    last_sent,    \* _last_sent: id -> (key -> grid)
    pc,           \* the await each handle_client task is suspended at
    cid,          \* the task's cid = id(writer)
    exc,          \* the exception propagating through the task's finally block
    cur,          \* the locals of the iteration in progress
    attempt,      \* the retry loop's attempt
    out,          \* what writer.write() was handed, one entry per call
    closed,       \* writer.close() was called
    hist,         \* history: the requests whose header was read, in order
    eof,          \* history: bytes available when the stream ended (-1: it did not)
    acquires,     \* history: number of times the task's acquire() returned
    releases,     \* history: number of times the task called release()
    tileWrites,   \* history: rewrites of the data source so far
    sendFailures, \* history: failed write/drain attempts so far
    call          \* a call of one of the module's functions outside a connection:
                  \* its arguments and, once it returned, its result

serverVars == <<sem, waiters, to_shutdown, files, last_sent, pc, cid, exc, cur, attempt,
                out, closed, hist, eof, acquires, releases, tileWrites, sendFailures>>

vars == <<sem, waiters, to_shutdown, files, last_sent, pc, cid, exc, cur, attempt,
          out, closed, hist, eof, acquires, releases, tileWrites, sendFailures, call>>

\* ---------------------------------------------------------------- helpers
Max(a, b) == IF a >= b THEN a ELSE b
Min(a, b) == IF a <= b THEN a ELSE b

\* the elements of a finite set of integers in ascending order
RECURSIVE SortedSeq(_)
SortedSeq(S) ==
    IF S = {} THEN <<>>
    ELSE LET m == CHOOSE x \in S : \A y \in S : x <= y
         IN <<m>> \o SortedSeq(S \ {m})

\* range(0, stop, step)
Range(stop, step) == {i * step : i \in 0..(((stop + step - 1) \div step) - 1)}

\* grid[y][x]
Cell(g, y, x) == IF <<y, x>> \in g.ones THEN 1 ELSE 0

\* grid[y], a row: its length and the columns holding 1.0
Row(g, y) == [len |-> g.side, ones |-> {p[2] : p \in {q \in g.ones : q[1] = y}}]

ZeroGrid == [side |-> CHUNK_SIZE, ones |-> {}]
NoGrid == [side |-> 0, ones |-> {}]


\* ---------------------------------------------------------------- pure functions
\* (a faulty load_chunk: the file is never read)
load_chunk_without_file(co) == [side |-> CHUNK_SIZE, ones |-> {}]

\* load_chunk(cx, cy): the stored tile, or the zero grid when the file does not exist
load_chunk(co) ==
    IF co \in DOMAIN files THEN [side |-> CHUNK_SIZE, ones |-> files[co]] ELSE ZeroGrid

\* factor = max(int(1/lod), 1) with lod = b/255.0, for 1 <= b <= 254.  In IEEE
\* double arithmetic int(1/(b/255.0)) equals 255 // b for every b of 1..254.
Factor(b) == Max(255 \div b, 1)

\* [[g[y*factor][x*factor] for x in range(0, CHUNK_SIZE, factor)]
\*                         for y in range(0, CHUNK_SIZE, factor)]
\* y and x already step by factor and are multiplied by factor again: element
\* (i, j) of the result is g[i*factor*factor][j*factor*factor], and reading a
\* row or column at or beyond the grid's side raises IndexError.
SampleSide(f) == Cardinality(Range(CHUNK_SIZE, f))

SampleRaises(g, f) == \E y \in Range(CHUNK_SIZE, f) : y * f >= g.side

Sample(g, f) ==
    [side |-> SampleSide(f),
     ones |-> {<<p[1] \div (f * f), p[2] \div (f * f)>> :
                 p \in {q \in g.ones : /\ q[1] % (f * f) = 0
                                       /\ q[2] % (f * f) = 0
                                       /\ q[1] \div f \in Range(CHUNK_SIZE, f)
                                       /\ q[2] \div f \in Range(CHUNK_SIZE, f)}}]

\* lines 77-82: lod = hdr[9] / 255.0, load_chunk, and the sampling when lod < 1.0.
\* err names the exception the lines raise, "none" when they raise none.
NewData(h) ==
    IF h.lod >= 255 THEN [err |-> "none", grid |-> load_chunk(h.c)]
    ELSE IF h.lod = 0 THEN [err |-> "ZeroDivisionError", grid |-> NoGrid]
    ELSE IF SampleRaises(load_chunk(h.c), Factor(h.lod))
         THEN [err |-> "IndexError", grid |-> NoGrid]
    ELSE [err |-> "none", grid |-> Sample(load_chunk(h.c), Factor(h.lod))]

\* compute_diff(old, new), the branch for two lists, on grids (lists of rows):
\* one record per row index below min_len whose rows differ, then one per row
\* index of new at or beyond min_len, in ascending index order.
DiffIndices(old, new) ==
    {i \in 0..(Min(old.side, new.side) - 1) : Row(old, i) # Row(new, i)}
        \cup (Min(old.side, new.side)..(new.side - 1))

\* (a faulty compute_diff: a record for every row of new, changed or not)
compute_diff_every_row(old, new) ==
    [k \in 1..new.side |-> [index |-> k - 1, value |-> Row(new, k - 1)]]

compute_diff(old, new) ==
    LET idx == SortedSeq(DiffIndices(old, new))
    IN [k \in 1..Len(idx) |-> [index |-> idx[k], value |-> Row(new, idx[k])]]

\* data_to_send: the delta's records, or the full grid
DeltaPayload(recs) == [delta |-> TRUE, recs |-> recs, grid |-> NoGrid]
FullPayload(g) == [delta |-> FALSE, recs |-> <<>>, grid |-> g]

\* lines 83-88: the branch on full_flag and on the stored base
UseDelta(h, sess, key) == h.full_flag = 0 /\ key \in DOMAIN sess

DataToSend(h, sess, key, new_data) ==
    IF UseDelta(h, sess, key) THEN DeltaPayload(compute_diff(sess[key], new_data))
    ELSE FullPayload(new_data)

\* pack_and_compress(data): the frame carrying data (its bytes are
\* pack_and_compress_bytes below)
pack_and_compress(data) == [frame |-> data]

\* the session key (cx, cy, lod): lod = b/255.0 is a different float for each byte b
KeyOf(h) == <<h.c, h.lod>>

\* d[key] = g on a dict
DictSet(d, key, g) == [k \in (DOMAIN d) \cup {key} |-> IF k = key THEN g ELSE d[k]]

\* exp_backoff(attempt), in seconds
exp_backoff(n) == Min(RETRY_DELAY * (2 ^ n), 10)

\* (a faulty line 98: an entry that exists is kept, as dict.setdefault would)
StoreLastSentOnce(ls, i, key, g) ==
    [ls EXCEPT ![i] = IF key \in DOMAIN ls[i] THEN ls[i] ELSE DictSet(ls[i], key, g)]

\* (a faulty line 98: the session keeps one entry per coordinate, the new entry
\* replaces those of the coordinate at other LODs)
StoreLastSentPerCoordinate(ls, i, key, g) ==
    [ls EXCEPT ![i] = [k \in {x \in DOMAIN ls[i] : x[1] # key[1]} \cup {key} |->
                          IF k = key THEN g ELSE ls[i][k]]]

\* line 98: _last_sent[cid][(cx,cy,lod)] = new_data
StoreLastSent(ls, i, key, g) == [ls EXCEPT ![i] = DictSet(ls[i], key, g)]

\* (a faulty locked(): the value is not looked at)
LockedByWaitersOnly(value, ws) == ws # <<>>

\* Semaphore.locked(): no free slot, or a waiter is queued
Locked(value, ws) == value = 0 \/ ws # <<>>

\* no function is being called
NoCall == [fn |-> "none"]

EmptyDict == [k \in {} |-> NoGrid]
NoCur == [key |-> <<<<0, 0>>, 0>>, new_data |-> NoGrid, payload |-> FullPayload(NoGrid)]

\* ---------------------------------------------------------------- state
\* ids of the writers that are still referenced by a running handle_client
LiveIds == {cid[c] : c \in {d \in DOMAIN pc : pc[d] \notin {"new", "done", "raised"}}}

\* tasks that hold a slot: acquire() returned (or the slot was handed to them) and
\* release() was not called
Holders == {c \in DOMAIN pc : acquires[c] > releases[c]}

TotalRequests == LET RECURSIVE Sum(_)
                     Sum(S) == IF S = {} THEN 0
                               ELSE LET c == CHOOSE x \in S : TRUE
                                    IN Len(hist[c]) + Sum(S \ {c})
                 IN Sum(DOMAIN pc)

\* the state after the module is loaded, with the connections CS still to come
\* and IS the values id(writer) can take
InitOn(CS, IS) ==
    /\ sem = MAX_CONCURRENT_CLIENTS
    /\ waiters = <<>>
    /\ to_shutdown = FALSE
    /\ files = [co \in {} |-> {}]
    /\ last_sent = [i \in IS |-> EmptyDict]
    /\ pc = [c \in CS |-> "new"]
    /\ cid = [c \in CS |-> 0]
    /\ exc = [c \in CS |-> "none"]
    /\ cur = [c \in CS |-> NoCur]
    /\ attempt = [c \in CS |-> 0]
    /\ out = [c \in CS |-> <<>>]
    /\ closed = [c \in CS |-> FALSE]
    /\ hist = [c \in CS |-> <<>>]
    /\ eof = [c \in CS |-> -1]
    /\ acquires = [c \in CS |-> 0]
    /\ releases = [c \in CS |-> 0]
    /\ tileWrites = 0
    /\ sendFailures = 0

\* ---------------------------------------------------------------- steps of handle_client
\* line 72 evaluated, then either the await of line 73 or the finally block up
\* to the await of writer.wait_closed()
LoopTop(c) ==
    IF ~to_shutdown
    THEN pc' = [pc EXCEPT ![c] = "read"] /\ closed' = closed
    ELSE pc' = [pc EXCEPT ![c] = "wait_closed"] /\ closed' = [closed EXCEPT ![c] = TRUE]

\* the finally block up to the await of writer.wait_closed()
Finally(c) ==
    /\ pc' = [pc EXCEPT ![c] = "wait_closed"]
    /\ closed' = [closed EXCEPT ![c] = TRUE]

\* lines 69-70: the task starts; acquire() returns at once when the semaphore is
\* not locked, and otherwise queues the task
Start(c, i) ==
    /\ pc[c] = "new"
    /\ i \notin LiveIds
    /\ cid' = [cid EXCEPT ![c] = i]
    /\ IF ~Locked(sem, waiters)
       THEN /\ sem' = sem - 1
            /\ acquires' = [acquires EXCEPT ![c] = @ + 1]
            /\ LoopTop(c)
            /\ UNCHANGED waiters
       ELSE /\ waiters' = Append(waiters, c)
            /\ pc' = [pc EXCEPT ![c] = "acquire"]
            /\ UNCHANGED <<sem, acquires, closed>>
    /\ UNCHANGED <<to_shutdown, files, last_sent, exc, cur, attempt, out, hist, eof,
                   releases, tileWrites, sendFailures, call>>

\* line 70, second half: a task that release() woke resumes, leaves the queue
\* and acquire() returns
Resume(c) ==
    /\ pc[c] = "woken"
    /\ waiters' = SelectSeq(waiters, LAMBDA w : w # c)
    /\ acquires' = [acquires EXCEPT ![c] = @ + 1]
    /\ LoopTop(c)
    /\ UNCHANGED <<sem, to_shutdown, files, last_sent, cid, exc, cur, attempt, out, hist,
                   eof, releases, tileWrites, sendFailures, call>>

\* lines 93 and 94 up to the await: writer.write(payload) buffers the bytes (a
\* stream writer's write() does not block and reports a lost connection only
\* through drain()), and the task awaits drain()
WriteAttempt(c, frame) ==
    /\ out' = [out EXCEPT ![c] = Append(@, frame)]
    /\ pc' = [pc EXCEPT ![c] = "drain"]

\* lines 73-93: readexactly returns the complete header h; the request is decoded,
\* sampled, diffed against the session and packed, and the first write is made.
\* An exception of lines 77-82 is not caught: the finally block runs.
ReadHeader(c, h) ==
    /\ pc[c] = "read"
    /\ LET nd == NewData(h)
           key == KeyOf(h)
           data == DataToSend(h, last_sent[cid[c]], key, nd.grid)
       IN IF nd.err # "none"
          THEN /\ exc' = [exc EXCEPT ![c] = nd.err]
               /\ Finally(c)
               /\ hist' = [hist EXCEPT ![c] = Append(@,
                             [hdr |-> h, src |-> load_chunk(h.c), err |-> nd.err,
                              new_data |-> NoGrid, payload |-> FullPayload(NoGrid),
                              own |-> FALSE, finished |-> FALSE])]
               /\ UNCHANGED <<cur, attempt, out, sendFailures>>
          ELSE /\ cur' = [cur EXCEPT ![c] = [key |-> key, new_data |-> nd.grid,
                                             payload |-> data]]
               /\ attempt' = [attempt EXCEPT ![c] = 0]
               /\ hist' = [hist EXCEPT ![c] = Append(@,
                             [hdr |-> h, src |-> load_chunk(h.c), err |-> "none",
                              new_data |-> nd.grid, payload |-> data,
                              own |-> \E k \in 1..Len(hist[c]) :
                                         KeyOf(hist[c][k].hdr) = key /\ hist[c][k].finished,
                              finished |-> FALSE])]
               /\ WriteAttempt(c, pack_and_compress(data))
               /\ UNCHANGED <<closed, exc, sendFailures>>
    /\ UNCHANGED <<sem, waiters, to_shutdown, files, last_sent, cid, eof, acquires,
                   releases, tileWrites, call>>

\* line 73 raises IncompleteReadError: the stream ended with k < 10 bytes of a
\* header; lines 99-100 swallow it and the finally block runs
ReadEOF(c, k) ==
    /\ pc[c] = "read"
    /\ eof' = [eof EXCEPT ![c] = k]
    /\ Finally(c)
    /\ UNCHANGED <<sem, waiters, to_shutdown, files, last_sent, cid, exc, cur, attempt,
                   out, hist, acquires, releases, tileWrites, sendFailures, call>>

\* line 98 and back to line 72
FinishIteration(c) ==
    /\ last_sent' = StoreLastSent(last_sent, cid[c], cur[c].key, cur[c].new_data)
    /\ hist' = [hist EXCEPT ![c][Len(hist[c])].finished = TRUE]
    /\ LoopTop(c)

\* line 94 completes: drain() returns (break, line 98) or raises (line 97, sleep)
Drain(c, ok) ==
    /\ pc[c] = "drain"
    /\ IF ok
       THEN /\ FinishIteration(c)
            /\ UNCHANGED sendFailures
       ELSE /\ pc' = [pc EXCEPT ![c] = "sleep"]
            /\ sendFailures' = sendFailures + 1
            /\ UNCHANGED <<last_sent, hist, closed>>
    /\ UNCHANGED <<sem, waiters, to_shutdown, files, cid, exc, cur, attempt, out, eof,
                   acquires, releases, tileWrites, call>>

\* (a faulty retry loop: range(MAX_RETRIES + 1))
WakeOneMoreAttempt(c) ==
    /\ pc[c] = "sleep"
    /\ IF attempt[c] + 1 < MAX_RETRIES + 1
       THEN /\ attempt' = [attempt EXCEPT ![c] = @ + 1]
            /\ WriteAttempt(c, pack_and_compress(cur[c].payload))
            /\ UNCHANGED <<last_sent, hist, closed>>
       ELSE /\ FinishIteration(c)
            /\ UNCHANGED <<attempt, out>>
    /\ UNCHANGED <<sem, waiters, to_shutdown, files, cid, exc, cur, eof, acquires,
                   releases, tileWrites, sendFailures, call>>

\* line 97 completes: the sleep ends; the for loop makes its next attempt, or is
\* exhausted after MAX_RETRIES attempts and line 98 runs
Wake(c) ==
    /\ pc[c] = "sleep"
    /\ IF attempt[c] + 1 < MAX_RETRIES
       THEN /\ attempt' = [attempt EXCEPT ![c] = @ + 1]
            /\ WriteAttempt(c, pack_and_compress(cur[c].payload))
            /\ UNCHANGED <<last_sent, hist, closed>>
       ELSE /\ FinishIteration(c)
            /\ UNCHANGED <<attempt, out>>
    /\ UNCHANGED <<sem, waiters, to_shutdown, files, cid, exc, cur, eof, acquires,
                   releases, tileWrites, sendFailures, call>>

\* Semaphore.release(): the value goes up by one and _wake_up_next() hands the
\* slot to the first queued task that was not woken yet
Release(c) ==
    /\ releases' = [releases EXCEPT ![c] = @ + 1]
    /\ IF \E k \in 1..Len(waiters) : pc[waiters[k]] = "acquire"
       THEN LET k == CHOOSE j \in 1..Len(waiters) :
                        /\ pc[waiters[j]] = "acquire"
                        /\ \A l \in 1..(j - 1) : pc[waiters[l]] # "acquire"
            IN /\ pc' = [pc EXCEPT ![c] = IF exc[c] = "none" THEN "done" ELSE "raised",
                                   ![waiters[k]] = "woken"]
               /\ sem' = sem
       ELSE /\ pc' = [pc EXCEPT ![c] = IF exc[c] = "none" THEN "done" ELSE "raised"]
            /\ sem' = sem + 1

\* line 102 after the await: wait_closed() returns and release() runs, or
\* wait_closed() raises (the connection was lost with an error, or the task was
\* cancelled) and the rest of the finally block is skipped
WaitClosed(c, ok) ==
    /\ pc[c] = "wait_closed"
    /\ IF ok
       THEN /\ Release(c)
            /\ UNCHANGED exc
       ELSE /\ exc' = [exc EXCEPT ![c] = "wait_closed"]
            /\ pc' = [pc EXCEPT ![c] = "raised"]
            /\ UNCHANGED <<sem, releases>>
    /\ UNCHANGED <<waiters, to_shutdown, files, last_sent, cid, cur, attempt, out, closed,
                   hist, eof, acquires, tileWrites, sendFailures, call>>

\* _ask_shutdown, the signal handler
AskShutdown ==
    /\ ~to_shutdown
    /\ to_shutdown' = TRUE
    /\ UNCHANGED <<sem, waiters, files, last_sent, pc, cid, exc, cur, attempt, out, closed,
                   hist, eof, acquires, releases, tileWrites, sendFailures, call>>

\* the data source changes: the tile of coordinate co is (re)written with one
\* cell changed between 0.0 and 1.0 (a tile that did not exist held zeros)
WriteTile(co, cell) ==
    /\ files' = [k \in (DOMAIN files) \cup {co} |->
                   IF k # co THEN files[k]
                   ELSE IF cell \in load_chunk(co).ones
                        THEN load_chunk(co).ones \ {cell}
                        ELSE load_chunk(co).ones \cup {cell}]
    /\ tileWrites' = tileWrites + 1
    /\ UNCHANGED <<sem, waiters, to_shutdown, last_sent, pc, cid, exc, cur, attempt, out,
                   closed, hist, eof, acquires, releases, sendFailures, call>>

\* ---------------------------------------------------------------- specifications
DrainOutcomes(maxFailures) == IF sendFailures < maxFailures THEN {TRUE, FALSE} ELSE {TRUE}

\* connections are accepted in their order
InOrder(c) == IF c = 1 THEN TRUE ELSE pc[c - 1] # "new"

\* id(writer) is the address of the writer: any value no live writer has.  Ids
\* are only compared for equality, so of the values never used before one is
\* enough; a value a dead writer had can be taken again.
UsedIds == {cid[c] : c \in {d \in DOMAIN pc : pc[d] # "new"}}
IdChoices == {i \in DOMAIN last_sent : i \in UsedIds \/ \A j \in (DOMAIN last_sent) \ UsedIds : i <= j}

\* Spec: one connection, every header, the data source rewritten between
\* requests, drain() failing, shutdown asked at any moment.
Init == InitOn(OneConn, OneConn) /\ call = NoCall

Next ==
    \/ \E c \in OneConn, i \in IdChoices : Start(c, i)
    \/ \E c \in OneConn, h \in Headers : TotalRequests < MaxRequests /\ ReadHeader(c, h)
    \/ \E c \in OneConn, k \in PartialLens : ReadEOF(c, k)
    \/ \E c \in OneConn, ok \in DrainOutcomes(MaxSendFailures) : Drain(c, ok)
    \/ \E c \in OneConn : Wake(c)
    \/ \E c \in OneConn, ok \in BOOLEAN : WaitClosed(c, ok)
    \/ AskShutdown
    \/ \E co \in TileCoords, cell \in TileCells :
          tileWrites < MaxTileWrites /\ WriteTile(co, cell)

Spec == Init /\ [][Next]_vars

\* SpecPair: NumConns connections, accepted in their order and then running in
\* any interleaving, a later writer possibly at the address of a dead one.
InitPair == InitOn(PairConns, PairIds) /\ call = NoCall

NextPair ==
    \/ \E c \in PairConns, i \in IdChoices : InOrder(c) /\ Start(c, i)
    \/ \E c \in PairConns, h \in Headers :
          TotalRequests < PairMaxRequests /\ ReadHeader(c, h)
    \/ \E c \in PairConns : ReadEOF(c, 0)
    \/ \E c \in PairConns, ok \in DrainOutcomes(PairMaxSendFailures) : Drain(c, ok)
    \/ \E c \in PairConns : Wake(c)
    \/ \E c \in PairConns, ok \in BOOLEAN : WaitClosed(c, ok)
    \/ AskShutdown
    \/ \E co \in TileCoords, cell \in TileCells :
          tileWrites < PairMaxTileWrites /\ WriteTile(co, cell)

SpecPair == InitPair /\ [][NextPair]_vars

\* SpecAdmission: MAX_CONCURRENT_CLIENTS + 1 connections, accepted in their
\* order, every writer alive at an address of its own; shutdown is asked once
\* all are accepted.  The connections accepted while a slot is free run the
\* same code on the same input, so of those that await a header it is the
\* first whose client acts; the client of the last connection acts freely.
InitAdmission == InitOn(AdmConns, AdmConns) /\ call = NoCall

Disconnects == Cardinality({c \in DOMAIN pc : eof[c] >= 0})
AllAccepted == \A c \in DOMAIN pc : pc[c] # "new"
ClientActs(c) ==
    IF c = MAX_CONCURRENT_CLIENTS + 1 THEN TRUE
    ELSE \A d \in DOMAIN pc : pc[d] = "read" => c <= d

NextAdmission ==
    \/ \E c \in AdmConns : InOrder(c) /\ Start(c, c)
    \/ \E c \in AdmConns : Resume(c)
    \/ \E c \in AdmConns, h \in AdmHeaders :
          ClientActs(c) /\ TotalRequests < AdmMaxRequests /\ ReadHeader(c, h)
    \/ \E c \in AdmConns :
          ClientActs(c) /\ Disconnects < AdmMaxDisconnects /\ ReadEOF(c, 0)
    \/ \E c \in AdmConns : Drain(c, TRUE)
    \/ \E c \in AdmConns, ok \in BOOLEAN : WaitClosed(c, ok)
    \/ AllAccepted /\ AskShutdown

SpecAdmission == InitAdmission /\ [][NextAdmission]_vars

\* The event loop runs every task that is ready: a woken task resumes, a
\* drain() and a wait_closed() that are awaited end (either way).  What the
\* clients do (send a header, end the stream) is under no fairness.
FairAdmission ==
    \A c \in AdmConns :
        /\ WF_vars(Resume(c))
        /\ WF_vars(Drain(c, TRUE))
        /\ WF_vars(\E ok \in BOOLEAN : WaitClosed(c, ok))

FairSpecAdmission == SpecAdmission /\ FairAdmission

\* ---------------------------------------------------------------- compute_diff on Python values
\* A Python value: its type and its content.  A list holds a sequence, a dict a
\* function from its keys; float('nan') is the one value that differs from itself.
PyNone == [kind |-> "NoneType", val |-> 0]
PyNaN == [kind |-> "nan", val |-> 0]
PyInt(n) == [kind |-> "int", val |-> n]
PyList(s) == [kind |-> "list", val |-> s]
PyDict(f) == [kind |-> "dict", val |-> f]

\* a == b, for values that hold no nan inside
PyEq(a, b) == IF a.kind # b.kind THEN FALSE ELSE a.val = b.val

\* a != b
PyNe(a, b) ==
    IF a.kind # b.kind THEN TRUE
    ELSE IF a.kind = "nan" THEN TRUE
    ELSE a.val # b.val

\* lines 29-32: diff = {}; for k, v in new.items(): if k not in old or
\* old[k] != v: diff[k] = v   (keys: the items still to visit)
RECURSIVE DiffNewItems(_, _, _, _)
DiffNewItems(old, new, keys, diff) ==
    IF keys = {} THEN diff
    ELSE LET k == CHOOSE x \in keys : TRUE
             changed == IF k \notin DOMAIN old THEN TRUE ELSE PyNe(old[k], new[k])
         IN DiffNewItems(old, new, keys \ {k},
                         IF changed THEN DictSet(diff, k, new[k]) ELSE diff)

\* lines 33-35: for k in old: if k not in new: diff[k] = None
RECURSIVE DiffOldKeys(_, _, _)
DiffOldKeys(new, keys, diff) ==
    IF keys = {} THEN diff
    ELSE LET k == CHOOSE x \in keys : TRUE
         IN DiffOldKeys(new, keys \ {k},
                        IF k \notin DOMAIN new THEN DictSet(diff, k, PyNone) ELSE diff)

\* (a faulty dict branch: the loop over old's keys is missing)
compute_diff_dict_no_deletion(old, new) ==
    DiffNewItems(old, new, DOMAIN new, [k \in {} |-> PyNone])

\* compute_diff, the branch for two dicts (lines 28-36)
compute_diff_dict(old, new) ==
    DiffOldKeys(new, DOMAIN old, DiffNewItems(old, new, DOMAIN new, [k \in {} |-> PyNone]))

\* lines 40-41: for i in range(min_len): if old[i] != new[i]:
\* diffs.append({'index': i, 'value': new[i]})   (from index i on)
RECURSIVE DiffChanged(_, _, _, _)
DiffChanged(old, new, i, min_len) ==
    IF i >= min_len THEN <<>>
    ELSE (IF PyNe(old[i + 1], new[i + 1])
          THEN <<[index |-> i, value |-> new[i + 1]]>> ELSE <<>>)
         \o DiffChanged(old, new, i + 1, min_len)

\* line 42: for i in range(min_len, len(new)): diffs.append(...)
DiffAdded(new, min_len) ==
    [k \in 1..(Len(new) - min_len) |-> [index |-> min_len + k - 1, value |-> new[min_len + k]]]

\* (a faulty list branch: the first loop starts at index 1)
compute_diff_list_from_one(old, new) ==
    LET min_len == Min(Len(old), Len(new))
    IN DiffChanged(old, new, 1, min_len) \o DiffAdded(new, min_len)

\* (a list branch that reports the removed tail, one record of value None for
\* every index of old at or beyond len(new); the code has no such loop)
compute_diff_list_with_tail(old, new) ==
    LET min_len == Min(Len(old), Len(new))
    IN DiffChanged(old, new, 0, min_len) \o DiffAdded(new, min_len)
          \o [k \in 1..(Len(old) - min_len) |-> [index |-> min_len + k - 1, value |-> PyNone]]

\* compute_diff, the branch for two lists (lines 37-43)
compute_diff_list(old, new) ==
    LET min_len == Min(Len(old), Len(new))
    IN DiffChanged(old, new, 0, min_len) \o DiffAdded(new, min_len)

\* compute_diff(old, new) on any two values (lines 27-44)
compute_diff_value(old, new) ==
    IF old.kind = "dict" /\ new.kind = "dict"
    THEN PyDict(compute_diff_dict(old.val, new.val))
    ELSE IF old.kind = "list" /\ new.kind = "list"
    THEN PyList(compute_diff_list(old.val, new.val))
    ELSE IF PyNe(old, new) THEN new ELSE PyNone

\* applyDelta(old, delta) for a mapping delta: from a copy of old, every key of
\* delta is deleted when its value is the deletion sentinel (None) and set
\* otherwise   (keys: the entries of delta still to visit)
RECURSIVE apply_diff_dict(_, _, _)
apply_diff_dict(old, delta, keys) ==
    IF keys = {} THEN old
    ELSE LET k == CHOOSE x \in keys : TRUE
         IN apply_diff_dict(IF delta[k].kind = "NoneType"
                            THEN [j \in (DOMAIN old) \ {k} |-> old[j]]
                            ELSE DictSet(old, k, delta[k]),
                            delta, keys \ {k})

\* applyDelta(old, delta) for a sequence delta: from a copy of old, every
\* record whose index is below len(old) overwrites that position, in order
RECURSIVE apply_diff_list(_, _)
apply_diff_list(old, recs) ==
    IF recs = <<>> THEN old
    ELSE apply_diff_list(IF Head(recs).index < Len(old)
                         THEN [old EXCEPT ![Head(recs).index + 1] = Head(recs).value]
                         ELSE old,
                         Tail(recs))

\* the deltas applyDelta is defined on: a mapping delta for a mapping, a
\* sequence delta for a sequence, the no-change value
DeltaFits(old, delta) ==
    \/ old.kind = "dict" /\ delta.kind = "dict"
    \/ old.kind = "list" /\ delta.kind = "list"
    \/ old.kind \notin {"dict", "list"} /\ delta.kind = "NoneType"

apply_diff(old, delta) ==
    IF delta.kind = "dict" THEN PyDict(apply_diff_dict(old.val, delta.val, DOMAIN delta.val))
    ELSE IF delta.kind = "list" THEN PyList(apply_diff_list(old.val, delta.val))
    ELSE old

\* SpecDiff: compute_diff is called on any two values, and the receiving side
\* applies the delta it returned to its copy of old.
DiffKeys == {"a", "b"}
DiffAtoms == {PyInt(1), PyInt(2), PyNone, PyNaN}
DiffDicts == {PyDict(f) : f \in UNION {[D -> DiffAtoms] : D \in SUBSET DiffKeys}}
DiffLists == {PyList(l) : l \in UNION {[1..n -> DiffAtoms] : n \in 0..MaxListLen}}
DiffValues(kind) ==
    IF kind = "dict" THEN DiffDicts ELSE IF kind = "list" THEN DiffLists ELSE DiffAtoms

InitDiff ==
    /\ InitOn({}, {})
    /\ \E ko \in {"dict", "list", "other"}, kn \in {"dict", "list", "other"} :
        \E o \in DiffValues(ko), n \in DiffValues(kn) :
          call = [fn |-> "compute_diff", old |-> o, new |-> n, delta |-> PyNone,
                  result |-> PyNone, returned |-> FALSE]

ComputeDiffReturns ==
    /\ call.fn = "compute_diff"
    /\ ~call.returned
    /\ call' = [call EXCEPT !.result = compute_diff_value(call.old, call.new),
                            !.returned = TRUE]
    /\ UNCHANGED serverVars

ApplyDiff ==
    /\ call.fn = "compute_diff"
    /\ call.returned
    /\ DeltaFits(call.old, call.result)
    /\ call' = [fn |-> "apply_diff", old |-> call.old, new |-> call.new,
                delta |-> call.result, result |-> apply_diff(call.old, call.result),
                returned |-> TRUE]
    /\ UNCHANGED serverVars

NextDiff == ComputeDiffReturns \/ ApplyDiff

SpecDiff == InitDiff /\ [][NextDiff]_vars

\* ---------------------------------------------------------------- pack_and_compress on bytes
\* float(n), for the two elevations 0.0 and 1.0 of the grids above
PyFloat(n) == [kind |-> "float", val |-> n]

\* a and b are the same value, compared type first and then content
RECURSIVE PySame(_, _)
PySame(a, b) ==
    IF a.kind # b.kind THEN FALSE
    ELSE IF a.kind = "list"
    THEN IF Len(a.val) # Len(b.val) THEN FALSE
         ELSE \A i \in 1..Len(a.val) : PySame(a.val[i], b.val[i])
    ELSE IF a.kind = "dict"
    THEN IF DOMAIN a.val # DOMAIN b.val THEN FALSE
         ELSE \A k \in DOMAIN a.val : PySame(a.val[k], b.val[k])
    ELSE a.val = b.val

\* the concatenation of a sequence of byte sequences
RECURSIVE Flatten(_)
Flatten(ss) == IF ss = <<>> THEN <<>> ELSE Head(ss) \o Flatten(Tail(ss))

\* the UTF-8 bytes of the dict keys in use, and the key of such bytes
Utf8(key) ==
    IF key = "index" THEN <<105, 110, 100, 101, 120>>
    ELSE IF key = "value" THEN <<118, 97, 108, 117, 101>>
    ELSE IF key = "a" THEN <<97>>
    ELSE <<98>>

FrameKeys == {"index", "value", "a", "b"}

\* the keys of a dict in the order they were inserted
KeyOrder(keys) == SelectSeq(<<"index", "value", "a", "b">>, LAMBDA k : k \in keys)

\* the IEEE 754 binary64 of 0.0 and of 1.0, big-endian
Float64(n) == IF n = 0 THEN <<0, 0, 0, 0, 0, 0, 0, 0>> ELSE <<63, 240, 0, 0, 0, 0, 0, 0>>

\* msgpack.packb(v, use_bin_type=True), line 47: nil is c0, an int of 0..127 is
\* itself and one of 128..255 is cc n, a float is cb and its binary64, a str of
\* up to 31 bytes is a0+len and its UTF-8, a list of up to 15 elements is 90+len
\* and its elements, a dict of up to 15 entries is 80+len and its keys and values
RECURSIVE packb(_)
packb(v) ==
    IF v.kind = "NoneType" THEN <<192>>
    ELSE IF v.kind = "int" THEN (IF v.val < 128 THEN <<v.val>> ELSE <<204, v.val>>)
    ELSE IF v.kind = "float" THEN <<203>> \o Float64(v.val)
    ELSE IF v.kind = "list"
    THEN <<144 + Len(v.val)>> \o Flatten([i \in 1..Len(v.val) |-> packb(v.val[i])])
    ELSE LET keys == KeyOrder(DOMAIN v.val)
         IN <<128 + Len(keys)>>
               \o Flatten([i \in 1..Len(keys) |->
                             <<160 + Len(Utf8(keys[i]))>> \o Utf8(keys[i])
                                \o packb(v.val[keys[i]])])

\* the sum of data[lo..hi] and the sum of the running sums over it, computed
\* by halves (the second of both halves together is the first half's, plus the
\* first half's sum once for every byte of the second half, plus the second's)
RECURSIVE AdlerSums(_, _, _)
AdlerSums(data, lo, hi) ==
    IF lo > hi THEN <<0, 0>>
    ELSE IF lo = hi THEN <<data[lo], data[lo]>>
    ELSE LET mid == (lo + hi) \div 2
             x == AdlerSums(data, lo, mid)
             y == AdlerSums(data, mid + 1, hi)
         IN <<x[1] + y[1], x[2] + (hi - mid) * x[1] + y[2]>>

\* Adler-32 of data, big-endian: a starts at 1 and adds every byte, b starts
\* at 0 and adds every value a takes, both modulo 65521; the bytes of b come
\* first
Adler32(data) ==
    LET s == AdlerSums(data, 1, Len(data))
        a == (1 + s[1]) % 65521
        b == (Len(data) + s[2]) % 65521
    IN <<b \div 256, b % 256, a \div 256, a % 256>>

\* zlib.compress(packed, level=COMPRESSION_LEVEL), line 48: a zlib stream of
\* packed: the header 78 9c, deflate blocks, the Adler-32 of packed.  Which
\* blocks the library chooses is not modelled: the stream here holds packed in
\* one stored block (01, LEN, ~LEN, the bytes), which zlib.decompress reads as
\* it reads the library's own output.
zlib_compress(data) ==
    <<120, 156, 1, Len(data) % 256, Len(data) \div 256,
      255 - (Len(data) % 256), 255 - (Len(data) \div 256)>>
        \o data \o Adler32(data)

\* (a faulty header: n.to_bytes(4, 'little'))
to_bytes_little(n) == <<n % 256, (n \div 256) % 256, (n \div 65536) % 256, (n \div 16777216) % 256>>

\* n.to_bytes(4, 'big'), for n below 2^31
to_bytes(n) == <<(n \div 16777216) % 256, (n \div 65536) % 256, (n \div 256) % 256, n % 256>>

\* int.from_bytes(bs[:4], 'big'), for a first byte below 128
from_bytes(bs) == bs[1] * 16777216 + bs[2] * 65536 + bs[3] * 256 + bs[4]

\* (a faulty pack_and_compress: the header holds the length of the packed
\* bytes, not of the compressed ones)
pack_and_compress_packed_len(data) ==
    to_bytes(Len(packb(data))) \o zlib_compress(packb(data))

\* pack_and_compress(data) as bytes (lines 46-50)
pack_and_compress_bytes(data) ==
    LET packed == packb(data)
        compressed == zlib_compress(packed)
        header == to_bytes(Len(compressed))
    IN header \o compressed

\* ---------------------------------------------------------------- the receiving side
\* zlib.decompress(comp): the bytes of a stream as zlib_compress writes it, or
\* zlib.error for anything else
zlib_decompress(comp) ==
    LET n == Len(comp) - 11
    IN IF n < 0 THEN [ok |-> FALSE, data |-> <<>>]
       ELSE IF \/ SubSeq(comp, 1, 3) # <<120, 156, 1>>
               \/ comp[4] + 256 * comp[5] # n
               \/ comp[6] # 255 - comp[4]
               \/ comp[7] # 255 - comp[5]
               \/ SubSeq(comp, Len(comp) - 3, Len(comp)) # Adler32(SubSeq(comp, 8, 7 + n))
       THEN [ok |-> FALSE, data |-> <<>>]
       ELSE [ok |-> TRUE, data |-> SubSeq(comp, 8, 7 + n)]

\* the key whose UTF-8 is bs
KeyOfUtf8(bs) == CHOOSE k \in FrameKeys : Utf8(k) = bs

\* msgpack's unpacker on the formats packb writes above: the first object of
\* bs and the bytes after it, or a failure.
BadObject == [ok |-> FALSE, val |-> PyNone, rest |-> <<>>]
RECURSIVE unpack(_)
RECURSIVE unpack_items(_, _)
RECURSIVE unpack_pairs(_, _)
unpack(bs) ==
    IF bs = <<>> THEN BadObject
    ELSE LET t == Head(bs)
             r == Tail(bs)
         IN IF t < 128 THEN [ok |-> TRUE, val |-> PyInt(t), rest |-> r]
            ELSE IF t < 144
            THEN LET m == unpack_pairs(r, t - 128)
                 IN [ok |-> m.ok, val |-> PyDict(m.val), rest |-> m.rest]
            ELSE IF t < 160
            THEN LET l == unpack_items(r, t - 144)
                 IN [ok |-> l.ok, val |-> PyList(l.val), rest |-> l.rest]
            ELSE IF t = 192 THEN [ok |-> TRUE, val |-> PyNone, rest |-> r]
            ELSE IF t = 203
            THEN IF Len(r) < 8 THEN BadObject
                 ELSE IF SubSeq(r, 1, 8) = Float64(0)
                 THEN [ok |-> TRUE, val |-> PyFloat(0), rest |-> SubSeq(r, 9, Len(r))]
                 ELSE IF SubSeq(r, 1, 8) = Float64(1)
                 THEN [ok |-> TRUE, val |-> PyFloat(1), rest |-> SubSeq(r, 9, Len(r))]
                 ELSE BadObject
            ELSE IF t = 204
            THEN IF r = <<>> THEN BadObject
                 ELSE [ok |-> TRUE, val |-> PyInt(Head(r)), rest |-> Tail(r)]
            ELSE BadObject

unpack_items(bs, n) ==
    IF n = 0 THEN [ok |-> TRUE, val |-> <<>>, rest |-> bs]
    ELSE LET h == unpack(bs)
         IN IF ~h.ok THEN [ok |-> FALSE, val |-> <<>>, rest |-> <<>>]
            ELSE LET t == unpack_items(h.rest, n - 1)
                 IN [ok |-> t.ok, val |-> <<h.val>> \o t.val, rest |-> t.rest]

\* the keys are str objects (a0+len and the UTF-8); a later entry of a key
\* replaces an earlier one
unpack_pairs(bs, n) ==
    IF n = 0 THEN [ok |-> TRUE, val |-> [k \in {} |-> PyNone], rest |-> bs]
    ELSE IF bs = <<>> THEN [ok |-> FALSE, val |-> <<>>, rest |-> <<>>]
    ELSE LET len == Head(bs) - 160
         IN IF len < 0 \/ len > 31 \/ Len(bs) < 1 + len
            THEN [ok |-> FALSE, val |-> <<>>, rest |-> <<>>]
            ELSE LET kb == SubSeq(bs, 2, 1 + len)
                     v == unpack(SubSeq(bs, 2 + len, Len(bs)))
                 IN IF ~v.ok \/ ~(\E k \in FrameKeys : Utf8(k) = kb)
                    THEN [ok |-> FALSE, val |-> <<>>, rest |-> <<>>]
                    ELSE LET t == unpack_pairs(v.rest, n - 1)
                         IN [ok |-> t.ok,
                             val |-> IF t.ok THEN t.val @@ (KeyOfUtf8(kb) :> v.val) ELSE <<>>,
                             rest |-> t.rest]

\* msgpack.unpackb(plain, raw=False): the one object plain holds; bytes left
\* over are an error (ExtraData)
unpackb(plain) ==
    LET u == unpack(plain)
    IN IF u.ok /\ u.rest = <<>> THEN [ok |-> TRUE, val |-> u.val]
       ELSE [ok |-> FALSE, val |-> PyNone]

\* the receiver of test_pack_and_compress_roundtrip: the length the frame
\* declares, and the payload decoded from the bytes after the prefix
decode_frame(frame) ==
    LET plain == zlib_decompress(SubSeq(frame, 5, Len(frame)))
        unpacked == IF plain.ok THEN unpackb(plain.data) ELSE [ok |-> FALSE, val |-> PyNone]
    IN [length |-> from_bytes(frame), ok |-> unpacked.ok, unpacked |-> unpacked.val]

\* findFrameBoundary(buffer): the offset just past the first frame when the 4
\* bytes of the prefix and the bytes it declares are all there, -1 otherwise
find_boundary(buffer) ==
    IF Len(buffer) < 4 THEN -1
    ELSE IF from_bytes(buffer) > Len(buffer) - 4 THEN -1
    ELSE 4 + from_bytes(buffer)

\* SpecFrame: pack_and_compress is called on a payload; a receiver decodes the
\* frame, or calls find_boundary on what it has received of the stream so far
\* (a part of the frame, or the frame and what follows it); find_boundary is
\* also called on arbitrary bytes.
FrameScalars == {PyNone, PyInt(0), PyInt(1), PyInt(127), PyInt(200), PyFloat(0), PyFloat(1)}
FrameRows == {PyList(l) : l \in UNION {[1..n -> {PyFloat(0), PyFloat(1)}] : n \in 0..MaxRowLen}}
FrameGrids == {PyList(g) : g \in UNION {[1..n -> FrameRows] : n \in 0..MaxRows}}
FrameRecords ==
    {PyDict(("index" :> PyInt(i)) @@ ("value" :> r)) : i \in 0..(MaxRows - 1), r \in FrameRows}
FrameDeltas == {PyList(l) : l \in UNION {[1..n -> FrameRecords] : n \in 0..1}}
FrameDicts == {PyDict(f) : f \in UNION {[D -> {PyNone, PyInt(1)}] : D \in SUBSET {"a", "b"}}}
FramePayloads(shape) ==
    IF shape = "grid" THEN FrameGrids
    ELSE IF shape = "delta" THEN FrameDeltas
    ELSE IF shape = "dict" THEN FrameDicts
    ELSE FrameScalars

\* arbitrary received bytes; the first byte stays below 128, where the declared
\* length fits the checker's integers
RawBuffers == UNION {[1..n -> {0, 1, 127}] : n \in 0..MaxBufferLen}

\* what a receiver may hold when the stream starts with frame
ReceivedBuffers(frame) ==
    {SubSeq(frame, 1, k) : k \in {0, 3, 4, Len(frame) - 1}}
        \cup {frame \o more : more \in {<<>>, <<0>>, <<0, 0, 0, 1>>, frame}}

InitFrame ==
    /\ InitOn({}, {})
    /\ \/ \E shape \in {"scalar", "grid", "delta", "dict"} :
          \E p \in FramePayloads(shape) :
             call = [fn |-> "pack_and_compress", data |-> p, frame |-> <<>>,
                     buffer |-> <<>>, result |-> <<>>, returned |-> FALSE]
       \/ \E b \in RawBuffers :
             call = [fn |-> "find_boundary", data |-> PyNone, frame |-> <<>>,
                     buffer |-> b, result |-> 0, returned |-> FALSE]

PackAndCompressReturns ==
    /\ call.fn = "pack_and_compress"
    /\ ~call.returned
    /\ call' = [call EXCEPT !.result = pack_and_compress_bytes(call.data),
                            !.returned = TRUE]
    /\ UNCHANGED serverVars

DecodeFrame ==
    /\ call.fn = "pack_and_compress"
    /\ call.returned
    /\ call' = [fn |-> "decode_frame", data |-> call.data, frame |-> call.result,
                buffer |-> <<>>, result |-> decode_frame(call.result), returned |-> TRUE]
    /\ UNCHANGED serverVars

Receive(buffer) ==
    /\ call.fn = "pack_and_compress"
    /\ call.returned
    /\ call' = [fn |-> "find_boundary", data |-> call.data, frame |-> call.result,
                buffer |-> buffer, result |-> 0, returned |-> FALSE]
    /\ UNCHANGED serverVars

FindBoundaryReturns ==
    /\ call.fn = "find_boundary"
    /\ ~call.returned
    /\ call' = [call EXCEPT !.result = find_boundary(call.buffer), !.returned = TRUE]
    /\ UNCHANGED serverVars

NextFrame ==
    \/ PackAndCompressReturns
    \/ DecodeFrame
    \/ /\ call.fn = "pack_and_compress"
       /\ call.returned
       /\ \E buffer \in ReceivedBuffers(call.result) : Receive(buffer)
    \/ FindBoundaryReturns

SpecFrame == InitFrame /\ [][NextFrame]_vars

\* ---------------------------------------------------------------- claims
\* the requests of connection c that raised nothing while they were processed
Answered(c) == {k \in 1..Len(hist[c]) : hist[c][k].err = "none"}
Ended(c) == pc[c] \in {"done", "raised"}

\* C1: once a request is processed (its header read, its send attempts done),
\* the connection's session entry for the request's key (cx, cy, lod) is the
\* sampled grid computed for that request, whether the payload was the full
\* grid or a delta and whether or not a send attempt succeeded.
C1_SessionHoldsNewData ==
    \A c \in DOMAIN pc :
        \A k \in 1..Len(hist[c]) :
            (k = Len(hist[c]) /\ hist[c][k].finished) =>
                /\ KeyOf(hist[c][k].hdr) \in DOMAIN last_sent[cid[c]]
                /\ last_sent[cid[c]][KeyOf(hist[c][k].hdr)] = hist[c][k].new_data

\* C1, its case: a second request for a key, answered by a delta after the
\* tile changed, whose MAX_RETRIES send attempts all failed, is processed.
C1_Witness ==
    \E c \in DOMAIN pc :
        /\ Len(hist[c]) = 2
        /\ hist[c][2].finished
        /\ hist[c][2].payload.delta
        /\ hist[c][2].new_data # hist[c][1].new_data
        /\ Len(out[c]) = 1 + MAX_RETRIES
        /\ sendFailures = MAX_RETRIES

\* C2: a request's payload is a delta exactly when its full_flag is 0 and the
\* same connection has already processed a request for the same key.
C2_DeltaIffOwnEarlierRequest ==
    \A c \in DOMAIN pc :
        \A k \in Answered(c) :
            hist[c][k].payload.delta <=> (hist[c][k].hdr.full_flag = 0 /\ hist[c][k].own)

\* the cells in which two grids of the same side differ
ChangedCells(g1, g2) == (g1.ones \ g2.ones) \cup (g2.ones \ g1.ones)

\* requests k and k+1 of connection c: a full request and then an incremental
\* one for the same key, both answered, the source changed in exactly one cell
FullThenIncremental(c, k) ==
    /\ k + 1 <= Len(hist[c])
    /\ {k, k + 1} \subseteq Answered(c)
    /\ hist[c][k].hdr.full_flag # 0
    /\ hist[c][k + 1].hdr.full_flag = 0
    /\ KeyOf(hist[c][k].hdr) = KeyOf(hist[c][k + 1].hdr)
    /\ Cardinality(ChangedCells(hist[c][k].src, hist[c][k + 1].src)) = 1

TheChangedCell(c, k) == CHOOSE p \in ChangedCells(hist[c][k].src, hist[c][k + 1].src) : TRUE

\* the factor the LOD byte stands for: 1 at byte 255, max(1, floor(255 / b)) below
FactorOfByte(b) == IF b >= 255 THEN 1 ELSE Max(1, 255 \div b)

C4_OneFramePerRequestInOrder ==
    \A c \in DOMAIN pc :
        /\ Len(out[c]) = Cardinality(Answered(c))
        /\ \A k \in 1..Len(out[c]) :
              k \in Answered(c) /\ out[c][k] = pack_and_compress(hist[c][k].payload)

\* C5: a handle_client run that acquired a slot and ended has released it
\* exactly once, and no run releases more often than it acquired.
C5_SlotReleasedOnEveryExit ==
    \A c \in DOMAIN pc :
        /\ releases[c] <= acquires[c]
        /\ Ended(c) => releases[c] = acquires[c]

\* C6: at most MAX_CONCURRENT_CLIENTS connections hold a slot (acquired, not
\* released) in any state, under any interleaving of the connection tasks.
C6_AtMostLimitHoldSlots == Cardinality(Holders) <= MAX_CONCURRENT_CLIENTS

\* C6, its case: every slot is held and one more connection is queued.
C6_Witness ==
    /\ Cardinality(Holders) = MAX_CONCURRENT_CLIENTS
    /\ \E c \in DOMAIN pc : pc[c] = "acquire"

\* the connection accepted when every slot is taken
LastConn == MAX_CONCURRENT_CLIENTS + 1

\* C7: the connection that found no free slot processes no request before it
\* has a slot, and once the stream of a holder has ended it eventually acquires
\* a slot.
C7_QueuedUntilAHolderLeaves ==
    /\ [](acquires[LastConn] = 0 => hist[LastConn] = <<>>)
    /\ [](pc[LastConn] = "acquire" =>
            Cardinality(Holders) = MAX_CONCURRENT_CLIENTS /\ hist[LastConn] = <<>>)
    /\ ((pc[LastConn] = "acquire" /\ \E h \in DOMAIN pc : eof[h] >= 0)
            ~> (acquires[LastConn] > 0))

\* C8: a connection whose stream ended inside a header (0 to 9 bytes) and whose
\* handle_client run has ended returned without raising, with the writer
\* closed and its slot released, and the writer was handed frames of complete
\* headers only.
C8_ShortHeaderIsCleanDisconnect ==
    \A c \in DOMAIN pc :
        eof[c] >= 0 =>
            /\ \A k \in 1..Len(out[c]) :
                  \E j \in Answered(c) : out[c][k] = pack_and_compress(hist[c][j].payload)
            /\ Ended(c) => /\ pc[c] = "done"
                           /\ exc[c] = "none"
                           /\ closed[c]
                           /\ releases[c] = acquires[c]

\* C9: whatever a complete header holds, no ZeroDivisionError and no IndexError
\* leaves handle_client: every header read is answered or the run ends with
\* the writer closed and no exception.
C9_NoExceptionFromAnyHeader ==
    \A c \in DOMAIN pc :
        /\ exc[c] \notin {"ZeroDivisionError", "IndexError"}
        /\ \A k \in 1..Len(hist[c]) :
              hist[c][k].err # "none" => (Ended(c) => pc[c] = "done" /\ closed[c])

\* every factor-th row and column of g, from index 0: side ceil(CHUNK_SIZE / f),
\* cell (i, j) = g[i*f][j*f]
EveryNth(g, f) ==
    [side |-> (CHUNK_SIZE + f - 1) \div f,
     ones |-> {<<q[1] \div f, q[2] \div f>> :
                 q \in {r \in g.ones : r[1] % f = 0 /\ r[2] % f = 0}}]

\* C10: for an LOD byte b of 1..254 the sampled grid is the square of side
\* ceil(CHUNK_SIZE / factor) whose cell (i, j) is the native grid's cell
\* (i * factor, j * factor), with factor = max(1, floor(255 / b)).
C10_SampledGridIsEveryFactorth ==
    \A c \in DOMAIN pc :
        \A k \in 1..Len(hist[c]) :
            hist[c][k].hdr.lod \in 1..254 =>
                /\ hist[c][k].err = "none"
                /\ hist[c][k].new_data
                      = EveryNth(hist[c][k].src, Max(1, 255 \div hist[c][k].hdr.lod))

\* C11: a request with LOD byte 255 that is answered with a full payload is
\* answered with the grid the data source holds for (cx, cy) when the header
\* is read, CHUNK_SIZE x CHUNK_SIZE and not sampled: the stored tile, or the
\* all-zero grid when the data source holds nothing for (cx, cy).
C11_FullResolutionIsTheSourceGrid ==
    [][\A c \in DOMAIN pc :
          (Len(hist'[c]) = Len(hist[c]) + 1) =>
              LET e == hist'[c][Len(hist'[c])]
              IN (e.hdr.lod = 255 /\ e.err = "none" /\ ~e.payload.delta) =>
                    /\ e.payload.grid.side = CHUNK_SIZE
                    /\ e.payload.grid.ones
                          = (IF e.hdr.c \in DOMAIN files THEN files[e.hdr.c] ELSE {})
                    /\ (e.hdr.c \notin DOMAIN files =>
                          \A y, x \in 0..(CHUNK_SIZE - 1) : Cell(e.payload.grid, y, x) = 0)
                    /\ out'[c][Len(out'[c])] = pack_and_compress(e.payload)]_vars

\* C11, its case: a full request at LOD byte 255 against the empty data source
\* got the zero grid, and after the tile was written with cell (3, 5) set a
\* second one got the grid holding that cell.
C11_Witness ==
    \E c \in DOMAIN pc :
        /\ Len(hist[c]) = 2
        /\ \A k \in 1..2 : /\ hist[c][k].hdr.lod = 255
                           /\ hist[c][k].hdr.full_flag # 0
                           /\ hist[c][k].err = "none"
        /\ hist[c][1].payload = [delta |-> FALSE, recs |-> <<>>, grid |-> ZeroGrid]
        /\ hist[c][2].payload.grid = [side |-> CHUNK_SIZE, ones |-> {<<3, 5>>}]
        /\ files = (<<0, 0>> :> {<<3, 5>>})

\* the session connection c built by itself before its k-th request: for every
\* key of an earlier request of c that was processed to the end, the sampled
\* grid of the latest such request
OwnSession(c, k) ==
    LET done == {j \in 1..(k - 1) : hist[c][j].finished}
        last(key) == CHOOSE j \in done :
                        /\ KeyOf(hist[c][j].hdr) = key
                        /\ \A i \in done : KeyOf(hist[c][i].hdr) = key => i <= j
    IN [key \in {KeyOf(hist[c][j].hdr) : j \in done} |-> hist[c][last(key)].new_data]

\* C12: session state is not shared across connections: the payload of every
\* answered request is what the connection's own earlier requests and the
\* data source determine, and the base of a delta was stored by an earlier
\* request of the same connection, also when an id(writer) is used again.
C12_PayloadFromOwnSessionOnly ==
    \A c \in DOMAIN pc :
        \A k \in Answered(c) :
            /\ hist[c][k].payload.delta => KeyOf(hist[c][k].hdr) \in DOMAIN OwnSession(c, k)
            /\ hist[c][k].payload
                  = DataToSend(hist[c][k].hdr, OwnSession(c, k), KeyOf(hist[c][k].hdr),
                               hist[c][k].new_data)

\* compute_diff(old, new) returned, for two mappings / for two sequences
DiffOfDicts == /\ call.fn = "compute_diff" /\ call.returned
               /\ call.old.kind = "dict" /\ call.new.kind = "dict"
DiffOfLists == /\ call.fn = "compute_diff" /\ call.returned
               /\ call.old.kind = "list" /\ call.new.kind = "list"
\* applyDelta(old, compute_diff(old, new)) returned
Applied == call.fn = "apply_diff"

\* C13: for all mappings old and new, applyDelta(old, compute_diff(old, new))
\* is new.
C13_ApplyInvertsDictDiff ==
    (Applied /\ call.old.kind = "dict" /\ call.new.kind = "dict") =>
        PyEq(call.result, call.new)

\* C14: for all sequences old and new of equal length,
\* applyDelta(old, compute_diff(old, new)) is new.
C14_ApplyInvertsListDiff ==
    (/\ Applied
     /\ call.old.kind = "list" /\ call.new.kind = "list"
     /\ Len(call.old.val) = Len(call.new.val)) => PyEq(call.result, call.new)

\* C14, its case: two of three positions changed, one of them to None, and
\* applying the two records gave new.
C14_Witness ==
    /\ Applied
    /\ PyEq(call.old, PyList(<<PyInt(1), PyInt(2), PyInt(1)>>))
    /\ PyEq(call.new, PyList(<<PyInt(1), PyNone, PyInt(2)>>))
    /\ call.delta.val = <<[index |-> 1, value |-> PyNone], [index |-> 2, value |-> PyInt(2)]>>
    /\ PyEq(call.result, call.new)

\* C15: for two mappings compute_diff(old, new) holds exactly key -> new[key]
\* for every key of new that old lacks or maps to a different value, and
\* key -> None for every key of old that new lacks.
C15_DictDiffEntries ==
    DiffOfDicts =>
        LET o == call.old.val
            n == call.new.val
            d == call.result.val
            differs(k) == IF k \notin DOMAIN o THEN TRUE ELSE PyNe(o[k], n[k])
        IN /\ call.result.kind = "dict"
           /\ DOMAIN d = {k \in DOMAIN n : differs(k)} \cup ((DOMAIN o) \ (DOMAIN n))
           /\ \A k \in DOMAIN d : IF k \in DOMAIN n THEN d[k] = n[k] ELSE d[k] = PyNone

\* C15, its case: one key changed, one removed.
C15_Witness ==
    /\ DiffOfDicts
    /\ call.old.val = ("a" :> PyInt(1) @@ "b" :> PyInt(2))
    /\ call.new.val = ("a" :> PyInt(2))
    /\ call.result.val = ("a" :> PyInt(2) @@ "b" :> PyNone)

\* the records C16 names: for the indices below both lengths where the
\* elements differ and the indices new adds, in ascending order
ExpectedRecords(o, n) ==
    LET idx == SortedSeq({i \in 0..(Min(Len(o), Len(n)) - 1) : PyNe(o[i + 1], n[i + 1])}
                            \cup (Len(o)..(Len(n) - 1)))
    IN [k \in 1..Len(idx) |-> [index |-> idx[k], value |-> n[idx[k] + 1]]]

C17_ListDiffSignalsRemovedTail ==
    (DiffOfLists /\ Len(call.new.val) < Len(call.old.val)) =>
        LET o == call.old.val
            n == call.new.val
        IN call.result.val
              = ExpectedRecords(o, n)
                  \o [k \in 1..(Len(o) - Len(n)) |-> [index |-> Len(n) + k - 1, value |-> PyNone]]

\* C18: compute_diff(x, x) is the no-change value for every x: the empty
\* mapping for a mapping, the empty list for a sequence, None otherwise.
C18_DiffOfEqualIsNoChange ==
    (call.fn = "compute_diff" /\ call.returned /\ PyEq(call.old, call.new)) =>
        /\ call.result.kind = (IF call.old.kind \in {"dict", "list"}
                               THEN call.old.kind ELSE "NoneType")
        /\ call.old.kind = "dict" => DOMAIN call.result.val = {}
        /\ call.old.kind = "list" => call.result.val = <<>>

\* C19: the first 4 bytes of the frame pack_and_compress returns, read as a
\* big-endian unsigned integer, are the number of bytes that follow them, and
\* decompressing and deserializing those bytes gives the payload back.
C19_FrameRoundTrip ==
    /\ (call.fn = "pack_and_compress" /\ call.returned) =>
          /\ Len(call.result) >= 4
          /\ from_bytes(call.result) = Len(call.result) - 4
    /\ call.fn = "decode_frame" =>
          /\ call.result.length = Len(call.frame) - 4
          /\ call.result.ok
          /\ PySame(call.result.unpacked, call.data)

\* C19, its case: a delta of one record, row 1 now [0.0, 1.0], was packed and
\* decoded back.
C19_Witness ==
    /\ call.fn = "decode_frame"
    /\ PySame(call.data,
              PyList(<<PyDict(("index" :> PyInt(1))
                                 @@ ("value" :> PyList(<<PyFloat(0), PyFloat(1)>>)))>>))
    /\ SubSeq(call.frame, 1, 4) = <<0, 0, 0, 45>>
    /\ Len(call.frame) = 49
    /\ PySame(call.result.unpacked, call.data)

Attempted(c) == Len(out'[c]) # Len(out[c])

\* the step ends connection c's iteration: line 98 ran
IterationEnded(c) ==
    /\ hist[c] # <<>>
    /\ ~hist[c][Len(hist[c])].finished
    /\ Len(hist'[c]) = Len(hist[c])
    /\ hist'[c][Len(hist[c])].finished

\* C21: a frame gets at least one and at most MAX_RETRIES write attempts; the
\* first is made when the header is read, a further one only after a failed one;
\* a successful attempt ends the iteration with no further attempt; after
\* MAX_RETRIES failed attempts nothing is raised and the iteration ends as after
\* a success: the session entry is stored and the loop goes to its next header
\* (to the loop's end when shutdown was asked meanwhile).
C21_BoundedWriteAttempts ==
    [][\A c \in DOMAIN pc :
          /\ Attempted(c) =>
                /\ out'[c] = Append(out[c], pack_and_compress(cur'[c].payload))
                /\ pc'[c] = "drain"
                /\ attempt'[c] < MAX_RETRIES
                /\ \/ pc[c] = "read" /\ attempt'[c] = 0
                   \/ pc[c] = "sleep" /\ attempt'[c] = attempt[c] + 1
          /\ (Len(hist'[c]) > Len(hist[c]) /\ hist'[c][Len(hist'[c])].err = "none")
                => Attempted(c)
          /\ (pc[c] = "drain" /\ pc'[c] # "drain" /\ sendFailures' = sendFailures)
                => IterationEnded(c) /\ ~Attempted(c)
          /\ (pc[c] = "sleep" /\ pc'[c] # "sleep" /\ attempt[c] = MAX_RETRIES - 1)
                => /\ IterationEnded(c)
                   /\ ~Attempted(c)
                   /\ exc'[c] = "none"
                   /\ cur[c].key \in DOMAIN last_sent'[cid[c]]
                   /\ last_sent'[cid[c]][cur[c].key] = cur[c].new_data
                   /\ IF to_shutdown THEN pc'[c] = "wait_closed"
                      ELSE pc'[c] = "read" /\ ~closed'[c]]_vars

\* C21, its case: all MAX_RETRIES attempts of a frame failed and the handler
\* awaits the next header, the connection open and the session entry stored.
C21_Witness ==
    \E c \in DOMAIN pc :
        /\ pc[c] = "read"
        /\ Len(hist[c]) = 1
        /\ hist[c][1].finished
        /\ Len(out[c]) = MAX_RETRIES
        /\ sendFailures = MAX_RETRIES
        /\ exc[c] = "none"
        /\ ~closed[c]
        /\ last_sent[cid[c]][KeyOf(hist[c][1].hdr)] = hist[c][1].new_data

\* C22: the handler sleeps only between two write attempts of a frame: a sleep
\* begins after a failed attempt and is followed by another attempt, and its
\* delay is min(RETRY_DELAY * 2^k, 10) after failed attempt k, that is 1 and
\* then 2 seconds.
C22_BackoffOnlyBetweenAttempts ==
    [][\A c \in DOMAIN pc :
          /\ (pc[c] # "sleep" /\ pc'[c] = "sleep")
                => /\ pc[c] = "drain"
                   /\ sendFailures' = sendFailures + 1
                   /\ exp_backoff(attempt'[c]) \in {1, 2}
                   /\ exp_backoff(attempt'[c]) <= 10
          /\ (pc[c] = "sleep" /\ pc'[c] # "sleep") => Attempted(c)]_vars

\* C23: once to_shutdown is set no handler begins a loop iteration: none comes
\* to await a header, so a handler reads at most the header it was already
\* awaiting; a handler whose acquire() returns after that goes straight to the
\* finally block with no request processed; an iteration that ends goes to the
\* finally block; a handler that ended has closed its writer and released its
\* slot.  Setting the flag changes nothing of any handler.
C23_ShutdownObservedAtLoopTopOnly ==
    [][\A c \in DOMAIN pc :
          /\ to_shutdown =>
                /\ pc'[c] = "read" => pc[c] = "read"
                /\ Len(hist'[c]) > Len(hist[c]) => pc[c] = "read"
                /\ acquires'[c] > acquires[c] =>
                      pc'[c] = "wait_closed" /\ closed'[c] /\ hist'[c] = <<>>
                /\ IterationEnded(c) => pc'[c] = "wait_closed" /\ closed'[c]
                /\ pc'[c] \in {"done", "raised"} =>
                      closed'[c] /\ releases'[c] = acquires'[c]
          /\ to_shutdown' # to_shutdown =>
                UNCHANGED <<pc, closed, exc, cur, attempt, out, hist, eof, sem, waiters,
                            last_sent, acquires, releases>>]_vars

\* C24: the session store holds entries only under the ids of connections whose
\* handle_client is running, and a connection that has processed no request
\* yet has no entry.
C24_SessionOnlyWhileOpen ==
    /\ \A i \in DOMAIN last_sent : DOMAIN last_sent[i] # {} => i \in LiveIds
    /\ \A c \in DOMAIN pc :
          (pc[c] \in {"acquire", "woken", "read"} /\ hist[c] = <<>>)
              => DOMAIN last_sent[cid[c]] = {}

\* connections whose handle_client is running
Live(c) == pc[c] \notin {"new", "done", "raised"}

ApplyRecords(old, recs) ==
    LET hit == {k \in 1..Len(recs) : recs[k].index < old.side}
        rows == {recs[k].index : k \in hit}
    IN [side |-> old.side,
        ones |-> {p \in old.ones : p[1] \notin rows}
                    \cup UNION {{<<recs[k].index, x>> : x \in recs[k].value.ones} : k \in hit}]

\* the grids a client holds per key after the first n requests of h were
\* answered: a full grid replaces the one it holds, a delta is applied to the
\* one it holds (and to none when it holds none)
RECURSIVE ClientAfter(_, _)
ClientAfter(h, n) ==
    IF n = 0 THEN EmptyDict
    ELSE LET prev == ClientAfter(h, n - 1)
             key == KeyOf(h[n].hdr)
         IN IF h[n].err # "none" THEN prev
            ELSE IF ~h[n].payload.delta THEN DictSet(prev, key, h[n].payload.grid)
            ELSE IF key \in DOMAIN prev
            THEN DictSet(prev, key, ApplyRecords(prev[key], h[n].payload.recs))
            ELSE prev

\* C26: with no failed send, after each answered request the client holds for
\* the request's key the grid the server stores as the session entry, and
\* between requests the client's grids are the session's entries.
C26_ClientMirrorsSession ==
    sendFailures = 0 =>
        \A c \in DOMAIN pc :
            /\ \A n \in 1..Len(hist[c]) :
                  hist[c][n].err = "none" =>
                     LET held == ClientAfter(hist[c], n)
                         key == KeyOf(hist[c][n].hdr)
                     IN /\ key \in DOMAIN held
                        /\ held[key] = hist[c][n].new_data
            /\ (pc[c] = "read" /\ hist[c] # <<>>) =>
                  LET held == ClientAfter(hist[c], Len(hist[c]))
                  IN \A key \in DOMAIN held :
                        /\ key \in DOMAIN last_sent[cid[c]]
                        /\ last_sent[cid[c]][key] = held[key]

====
